---- MODULE Spec2Model ----
(***************************************************************************)
(* BinaryDownloader (script.py): a sequential run that, for ffmpeg, bento4 *)
(* and megatools in turn, walks the fixed platform x architecture matrix,  *)
(* downloads the tool's distribution file(s), unpacks the expected         *)
(* executables into the target directory, records each installed           *)
(* executable in paths_json and finally writes paths_json to               *)
(* binary_paths.json.                                                      *)
(*                                                                         *)
(* The environment (HTTP server, archive contents, filesystem errors) is   *)
(* nondeterministic.  File names inside archives are sequences of tokens,  *)
(* so that str.endswith and the basename test of os.walk are computed on   *)
(* the name and not assumed.                                               *)
(***************************************************************************)
EXTENDS Integers, Sequences, FiniteSets, TLC

\* Number of (tool, target) cells of one run in which the environment may
\* deviate from the nominal behaviour (a fetch fails, an archive is not the
\* complete distribution, a filesystem or archive operation raises).
MaxFaults == 1
\* Longest archive (in entries) the server may deliver instead of the
\* complete distribution archive.
MaxEntries == 2
\* Longest sequence of _add_path calls explored by SpecAddPath.
MaxCalls == 4

None == "None"

\* ---------------------------------------------------------------- helpers

RECURSIVE Concat(_)
\* "".join(tokens)
Concat(tokens) ==
    IF tokens = <<>> THEN "" ELSE Head(tokens) \o Concat(Tail(tokens))

\* str.endswith on token sequences
EndsWith(name, suffix) ==
    /\ Len(suffix) <= Len(name)
    /\ SubSeq(name, Len(name) - Len(suffix) + 1, Len(name)) = suffix

RECURSIVE LastSlash(_, _)
LastSlash(name, k) ==
    IF k = 0 THEN 0 ELSE IF name[k] = "/" THEN k ELSE LastSlash(name, k - 1)

\* the last path component of an archive member, as os.walk lists it in files
Basename(name) == SubSeq(name, LastSlash(name, Len(name)) + 1, Len(name))

\* dict.get
Get(d, k) == IF k \in DOMAIN d THEN d[k] ELSE None

Range(s) == {s[k] : k \in DOMAIN s}

NoDuplicates(seq) == \A a, b \in DOMAIN seq : a # b => seq[a] # seq[b]

\* the sequences of at most n distinct elements of S
BoundedSeq(S, n) == {seq \in UNION {[1..k -> S] : k \in 0..n} : NoDuplicates(seq)}

\* ------------------------------------------------------------ configuration

\* self.platforms, in the iteration order of the dict
platforms ==
    << [name |-> "windows", arches |-> <<"x64">>],
       [name |-> "darwin",  arches |-> <<"x64", "arm64">>],
       [name |-> "linux",   arches |-> <<"x64", "arm64">>] >>

RECURSIVE Flatten(_)
Flatten(ps) ==
    IF ps = <<>> THEN <<>>
    ELSE [k \in 1..Len(Head(ps).arches) |->
            [platform |-> Head(ps).name, arch |-> Head(ps).arches[k]]]
         \o Flatten(Tail(ps))

\* the (platform, arch) pairs in the order of the nested for loops
Matrix == Flatten(platforms)

Tools == <<"ffmpeg", "bento4", "megatools">>

ffmpeg_map ==
    [windows |-> [x64 |-> "win32-x64"],
     darwin  |-> [x64 |-> "darwin-x64", arm64 |-> "darwin-arm64"],
     linux   |-> [x64 |-> "linux-x64", arm64 |-> "linux-arm64"]]

\* the list with ffprobe left out
ffmpeg_executables_short == <<"ffmpeg">>

\* line 89
ffmpeg_executables == <<"ffmpeg", "ffprobe">>

platform_config ==
    [windows |-> [x64 |-> "x86_64-microsoft-win32"],
     darwin  |-> [x64 |-> "universal-apple-macosx", arm64 |-> "universal-apple-macosx"],
     linux   |-> [x64 |-> "x86_64-unknown-linux", arm64 |-> "x86_64-unknown-linux"]]

\* bento4's expected executables, as token sequences
executables ==
    [windows |-> << <<"mp4decrypt", ".exe">>, <<"mp4encrypt", ".exe">>,
                    <<"mp4info", ".exe">>, <<"mp4dump", ".exe">> >>,
     darwin  |-> << <<"mp4decrypt">>, <<"mp4encrypt">>, <<"mp4info">>, <<"mp4dump">> >>,
     linux   |-> << <<"mp4decrypt">>, <<"mp4encrypt">>, <<"mp4info">>, <<"mp4dump">> >>]

\* megatools' (platform_str, extension, executable)
config ==
    [windows |-> [x64 |-> <<"win64", ".zip", <<"megatools", ".exe">> >>],
     darwin  |-> [x64 |-> <<"linux-x86_64", ".tar.gz", <<"megatools">> >>,
                  arm64 |-> <<"linux-aarch64", ".tar.gz", <<"megatools">> >>],
     linux   |-> [x64 |-> <<"linux-x86_64", ".tar.gz", <<"megatools">> >>,
                  arm64 |-> <<"linux-aarch64", ".tar.gz", <<"megatools">> >>]]

\* ------------------------------------------------------------------- state

VARIABLES
    tool,        \* run(): the tool being downloaded, then "save", then "done"
    cell,        \* index into Matrix of the (platform, arch) of the loops
    step,        \* position inside the loop body
    i,           \* ffmpeg: index of executable; bento4: index of zip_info
    j,           \* bento4: index of executable in the inner loop
    success,     \* the local counter success
    paths_json,  \* self.paths_json
    target_dir,  \* names that exist in target_dir
    mode,        \* names in target_dir whose mode is 0o755
    temp,        \* members extracted under target_dir / "temp"
    archive,     \* members of the downloaded zip / tar.gz, in archive order
    out,         \* lines printed for the current cell
    attempts,    \* the cells announced so far ("platform-arch: " lines)
    affected,    \* cells in which the environment deviated
    fetched,     \* files of target_dir for which _download returned True
    ready,       \* relative paths placed (and chmod-ed) when they were recorded
    serialized,  \* number of json.dump calls
    written,     \* content of binary_paths.json, None before it is written
    calls        \* SpecAddPath: the arguments of the _add_path calls so far

vars == <<tool, cell, step, i, j, success, paths_json, target_dir, mode, temp,
          archive, out, attempts, affected, fetched, ready, serialized, written, calls>>

platform_name == Matrix[cell].platform
arch == Matrix[cell].arch

Line(kind, name, k, n) == [kind |-> kind, name |-> name, k |-> k, n |-> n]
Say(l) == out' = Append(out, l)

\* The environment may deviate in the current cell.
MayFail == <<tool, cell>> \in affected \/ Cardinality(affected) < MaxFaults
Fail == affected' = affected \cup {<<tool, cell>>}

local == <<i, j, success, target_dir, mode, temp, archive, fetched>>
global == <<paths_json, attempts, affected, ready, serialized, written, calls>>

\* ----------------------------------------------------------------- manifest

Key(platform, arch_, tool_) == platform \o "_" \o arch_ \o "_" \o tool_
RelPath(platform, arch_, tool_, binary) ==
    platform \o "/" \o arch_ \o "/" \o tool_ \o "/" \o binary

\* _add_path without the membership test
_add_path_append(pj, platform, arch_, tool_, binary) ==
    LET key == Key(platform, arch_, tool_)
        pj1 == IF key \in DOMAIN pj THEN pj ELSE pj @@ (key :> <<>>)
    IN  [pj1 EXCEPT ![key] = Append(@, RelPath(platform, arch_, tool_, binary))]

\* self.paths_json after self._add_path(platform, arch, tool, binary)
_add_path(pj, platform, arch_, tool_, binary) ==
    LET key == Key(platform, arch_, tool_)
        pj1 == IF key \in DOMAIN pj THEN pj ELSE pj @@ (key :> <<>>)
        rel_path == RelPath(platform, arch_, tool_, binary)
    IN  IF rel_path \in Range(pj1[key])
        THEN pj1
        ELSE [pj1 EXCEPT ![key] = Append(@, rel_path)]

\* The file name is in place, executable where the platform needs it, and
\* came out of a file that _download delivered.
Installed(name, source) ==
    /\ source \in fetched
    /\ name \in target_dir
    /\ platform_name = "windows" \/ name \in mode

Record(binary, source) ==
    /\ paths_json' = _add_path(paths_json, platform_name, arch, tool, binary)
    /\ ready' = IF Installed(binary, source)
                THEN ready \cup {RelPath(platform_name, arch, tool, binary)}
                ELSE ready

\* ------------------------------------------------------------------ control

Init ==
    /\ tool = "ffmpeg" /\ cell = 1 /\ step = "begin"
    /\ i = 0 /\ j = 0 /\ success = 0
    /\ paths_json = <<>>
    /\ target_dir = {} /\ mode = {} /\ temp = {} /\ archive = <<>>
    /\ out = <<>> /\ attempts = <<>> /\ affected = {} /\ fetched = {}
    /\ ready = {} /\ serialized = 0 /\ written = None /\ calls = <<>>

\* the tool run() calls after tool t
NextTool(t) ==
    CASE t = "ffmpeg" -> "bento4"
      [] t = "bento4" -> "megatools"
      [] t = "megatools" -> "save"

\* `continue` / end of the loop body: the next (platform, arch), or the end of
\* the download_* method and the next call of run().  The target directory of
\* the next cell is a fresh one made by _create_directories.
next_cell ==
    /\ step = "end"
    /\ IF cell < Len(Matrix)
       THEN cell' = cell + 1 /\ tool' = tool /\ step' = "begin"
       ELSE /\ cell' = (IF NextTool(tool) = "save" THEN 0 ELSE 1)
            /\ tool' = NextTool(tool)
            /\ step' = "begin"
    /\ i' = 0 /\ j' = 0 /\ success' = 0
    /\ target_dir' = {} /\ mode' = {} /\ temp' = {} /\ archive' = <<>>
    /\ out' = <<>> /\ fetched' = {}
    /\ UNCHANGED global

\* ------------------------------------------------------------------- ffmpeg

gz_name(executable) ==
    executable \o "-" \o ffmpeg_map[platform_name][arch] \o ".gz"
ext == IF platform_name = "windows" THEN ".exe" ELSE ""
final_name(executable) == executable \o ext

\* lines 79-87: announce the cell, resolve the mapping, skip or start
ffmpeg_begin ==
    /\ tool = "ffmpeg" /\ step = "begin"
    /\ attempts' = Append(attempts, <<tool, cell>>)
    /\ IF Get(ffmpeg_map[platform_name], arch) = None
       THEN Say(Line("skip", "", 0, 0)) /\ step' = "end" /\ i' = i
       ELSE out' = out /\ step' = "download" /\ i' = 1
    /\ success' = 0
    /\ UNCHANGED <<tool, cell, j, target_dir, mode, temp, archive, fetched,
                   paths_json, affected, ready, serialized, written, calls>>

\* the next iteration of `for executable in ['ffmpeg', 'ffprobe']`
ffmpeg_next_executable ==
    IF i < Len(ffmpeg_executables)
    THEN i' = i + 1 /\ step' = "download"
    ELSE i' = i /\ step' = "summary"

\* line 97: self._download(url, gz_path)
ffmpeg_download ==
    /\ tool = "ffmpeg" /\ step = "download"
    /\ LET gz == gz_name(ffmpeg_executables[i]) IN
       \/ /\ target_dir' = target_dir \cup {gz}
          /\ fetched' = fetched \cup {gz}
          /\ step' = "gunzip"
          /\ UNCHANGED <<i, out, affected>>
       \/ /\ MayFail /\ Fail
          /\ \E partial \in BOOLEAN :
                target_dir' = IF partial THEN target_dir \cup {gz} ELSE target_dir
          /\ Say(Line("X", gz, 0, 0))
          /\ ffmpeg_next_executable
          /\ UNCHANGED fetched
    /\ UNCHANGED <<tool, cell, j, success, mode, temp, archive,
                   paths_json, attempts, ready, serialized, written, calls>>

\* lines 99-101: gzip.open / open(final_path, 'wb') / copyfileobj
ffmpeg_gunzip ==
    /\ tool = "ffmpeg" /\ step = "gunzip"
    /\ LET executable == ffmpeg_executables[i] IN
       \/ /\ target_dir' = target_dir \cup {final_name(executable)}
          /\ step' = "unlink"
          /\ UNCHANGED <<i, out, affected>>
       \/ /\ MayFail /\ Fail
          /\ \E created \in BOOLEAN :
                target_dir' = IF created
                              THEN target_dir \cup {final_name(executable)}
                              ELSE target_dir
          /\ Say(Line("X extract", executable, 0, 0))
          /\ ffmpeg_next_executable
    /\ UNCHANGED <<tool, cell, j, success, mode, temp, archive, fetched,
                   paths_json, attempts, ready, serialized, written, calls>>

\* line 103: gz_path.unlink(); on windows line 108 follows directly
ffmpeg_unlink ==
    /\ tool = "ffmpeg" /\ step = "unlink"
    /\ LET executable == ffmpeg_executables[i] IN
       \/ /\ target_dir' = target_dir \ {gz_name(executable)}
          /\ step' = IF platform_name # "windows" THEN "chmod" ELSE "record"
          /\ UNCHANGED <<i, out, affected>>
       \/ /\ MayFail /\ Fail
          /\ Say(Line("X extract", executable, 0, 0))
          /\ ffmpeg_next_executable
          /\ UNCHANGED target_dir
    /\ UNCHANGED <<tool, cell, j, success, mode, temp, archive, fetched,
                   paths_json, attempts, ready, serialized, written, calls>>

\* chmod whose error is swallowed: the executable is recorded all the same
ffmpeg_chmod_swallow ==
    /\ tool = "ffmpeg" /\ step = "chmod"
    /\ LET executable == ffmpeg_executables[i] IN
       \/ /\ mode' = mode \cup {final_name(executable)}
          /\ step' = "record"
          /\ UNCHANGED <<i, out, affected>>
       \/ /\ MayFail /\ Fail
          /\ Say(Line("X extract", executable, 0, 0))
          /\ step' = "record"
          /\ UNCHANGED <<i, mode>>
    /\ UNCHANGED <<tool, cell, j, success, target_dir, temp, archive, fetched,
                   paths_json, attempts, ready, serialized, written, calls>>

\* lines 105-106: os.chmod(final_path, 0o755) on non-windows platforms
ffmpeg_chmod ==
    /\ tool = "ffmpeg" /\ step = "chmod"
    /\ LET executable == ffmpeg_executables[i] IN
       \/ /\ mode' = mode \cup {final_name(executable)}
          /\ step' = "record"
          /\ UNCHANGED <<i, out, affected>>
       \/ /\ MayFail /\ Fail
          /\ Say(Line("X extract", executable, 0, 0))
          /\ ffmpeg_next_executable
          /\ UNCHANGED mode
    /\ UNCHANGED <<tool, cell, j, success, target_dir, temp, archive, fetched,
                   paths_json, attempts, ready, serialized, written, calls>>

\* lines 108-109: self._add_path(...); success += 1
ffmpeg_record ==
    /\ tool = "ffmpeg" /\ step = "record"
    /\ Record(final_name(ffmpeg_executables[i]), gz_name(ffmpeg_executables[i]))
    /\ success' = success + 1
    /\ ffmpeg_next_executable
    /\ UNCHANGED <<tool, cell, j, target_dir, mode, temp, archive, fetched,
                   out, attempts, affected, serialized, written, calls>>

\* line 113: print(f"{success}/2")
ffmpeg_summary ==
    /\ tool = "ffmpeg" /\ step = "summary"
    /\ Say(Line("summary", "", success, 2))
    /\ step' = "end"
    /\ UNCHANGED <<tool, cell, local, global>>

download_ffmpeg ==
    \/ ffmpeg_begin
    \/ ffmpeg_download
    \/ ffmpeg_gunzip
    \/ ffmpeg_unlink
    \/ ffmpeg_chmod
    \/ ffmpeg_record
    \/ ffmpeg_summary

\* ------------------------------------------------------------------- bento4

zip_name == "bento4.zip"

\* the members of the distribution zip that matter: one per expected executable
SdkArchive(platform) ==
    [k \in 1..Len(executables[platform]) |-> <<"bin", "/">> \o executables[platform][k]]

\* members an arbitrary zip may hold: the first three of the distribution, a
\* second member whose name ends with the first expected name, and one that
\* matches nothing
ZipMembers(platform) ==
    {SdkArchive(platform)[k] : k \in 1..3}
        \cup {<<"docs", "/">> \o executables[platform][1], <<"README">>}

RECURSIVE NextMatch(_, _, _, _)
\* the first (zip_info, executable) pair at or after (i0, j0), in the order of
\* the nested loops of lines 151-153, with zip_info.filename.endswith(executable)
NextMatch(members, names, i0, j0) ==
    IF i0 > Len(members) THEN <<0, 0>>
    ELSE IF j0 > Len(names) THEN NextMatch(members, names, i0 + 1, 1)
    ELSE IF EndsWith(members[i0], names[j0]) THEN <<i0, j0>>
    ELSE NextMatch(members, names, i0, j0 + 1)

\* lines 132-142
bento4_begin ==
    /\ tool = "bento4" /\ step = "begin"
    /\ attempts' = Append(attempts, <<tool, cell>>)
    /\ IF Get(platform_config[platform_name], arch) = None
       THEN Say(Line("skip", "", 0, 0)) /\ step' = "end"
       ELSE out' = out /\ step' = "download"
    /\ UNCHANGED <<tool, cell, local, paths_json, affected, ready, serialized, written, calls>>

\* _download returned True: the zip is on disk; its members are those of the
\* distribution or, as a deviation, any short sequence of members
bento4_fetched ==
    /\ target_dir' = target_dir \cup {zip_name}
    /\ fetched' = fetched \cup {zip_name}
    /\ \/ archive' = SdkArchive(platform_name) /\ UNCHANGED affected
       \/ /\ MayFail /\ Fail
          /\ archive' \in BoundedSeq(ZipMembers(platform_name), MaxEntries)
                              \ {SdkArchive(platform_name)}
    /\ step' = "open"
    /\ UNCHANGED <<out, cell>>

\* a failed download after which the method goes on to open the zip
bento4_not_fetched_fallthrough ==
    /\ MayFail /\ Fail
    /\ target_dir' = target_dir \cup {zip_name}
    /\ archive' = SdkArchive(platform_name)
    /\ Say(Line("X", zip_name, 0, 0))
    /\ step' = "open"
    /\ UNCHANGED <<fetched, cell>>

\* a failed download that ends the loop over the architectures of the platform
bento4_not_fetched_break ==
    /\ MayFail /\ Fail
    /\ \E partial \in BOOLEAN :
          target_dir' = IF partial THEN target_dir \cup {zip_name} ELSE target_dir
    /\ out' = out \o <<Line("X", zip_name, 0, 0), Line("summary", "", 0, 4)>>
    /\ step' = "end"
    /\ cell' = IF cell < Len(Matrix) /\ Matrix[cell + 1].platform = platform_name
               THEN cell + 1 ELSE cell
    /\ UNCHANGED <<archive, fetched>>

\* lines 144-146, _download returned False: its "X" line, "0/4", continue
bento4_not_fetched ==
    /\ MayFail /\ Fail
    /\ \E partial \in BOOLEAN :
          target_dir' = IF partial THEN target_dir \cup {zip_name} ELSE target_dir
    /\ out' = out \o <<Line("X", zip_name, 0, 0), Line("summary", "", 0, 4)>>
    /\ step' = "end"
    /\ UNCHANGED <<archive, fetched, cell>>

\* line 144: self._download(url, zip_path)
bento4_download ==
    /\ tool = "bento4" /\ step = "download"
    /\ bento4_fetched \/ bento4_not_fetched
    /\ UNCHANGED <<tool, i, j, success, mode, temp,
                   paths_json, attempts, ready, serialized, written, calls>>

\* the except branch of lines 173-174: the rest of the try block is left
bento4_except ==
    /\ MayFail /\ Fail
    /\ Say(Line("X extract", "", 0, 0))
    /\ step' = "summary"

\* lines 148-150: success = 0; zipfile.ZipFile(zip_path, 'r')
bento4_open ==
    /\ tool = "bento4" /\ step = "open"
    /\ success' = 0
    /\ \/ /\ i' = 1 /\ j' = 1 /\ step' = "scan"
          /\ UNCHANGED <<out, affected>>
       \/ /\ bento4_except
          /\ UNCHANGED <<i, j>>
    /\ UNCHANGED <<tool, cell, target_dir, mode, temp, archive, fetched,
                   paths_json, attempts, ready, serialized, written, calls>>

\* lines 151-153: both loops up to the next pair that matches; line 172 follows
\* the loops
bento4_scan ==
    /\ tool = "bento4" /\ step = "scan"
    /\ LET m == NextMatch(archive, executables[platform_name], i, j) IN
       IF m = <<0, 0>>
       THEN step' = "unlink" /\ UNCHANGED <<i, j>>
       ELSE step' = "extract" /\ i' = m[1] /\ j' = m[2]
    /\ UNCHANGED <<tool, cell, success, target_dir, mode, temp, archive, fetched,
                   out, global>>

\* lines 154-157: temp_path.mkdir(exist_ok=True); zip_ref.extract(zip_info, temp_path)
bento4_extract ==
    /\ tool = "bento4" /\ step = "extract"
    /\ \/ /\ target_dir' = target_dir \cup {"temp"}
          /\ temp' = temp \cup {archive[i]}
          /\ step' = "move"
          /\ UNCHANGED <<out, affected>>
       \/ /\ bento4_except
          /\ \E made \in BOOLEAN :
                target_dir' = IF made THEN target_dir \cup {"temp"} ELSE target_dir
          /\ UNCHANGED temp
    /\ UNCHANGED <<tool, cell, i, j, success, mode, archive, fetched,
                   paths_json, attempts, ready, serialized, written, calls>>

\* lines 158-161: shutil.move(src, dst); the moved file replaces dst
bento4_move ==
    /\ tool = "bento4" /\ step = "move"
    /\ LET dst == Concat(executables[platform_name][j]) IN
       \/ /\ temp' = temp \ {archive[i]}
          /\ target_dir' = target_dir \cup {dst}
          /\ mode' = mode \ {dst}
          /\ step' = IF platform_name # "windows" THEN "chmod" ELSE "record"
          /\ UNCHANGED <<out, affected>>
       \/ /\ bento4_except
          /\ UNCHANGED <<temp, target_dir, mode>>
    /\ UNCHANGED <<tool, cell, i, j, success, archive, fetched,
                   paths_json, attempts, ready, serialized, written, calls>>

\* success counted before os.chmod is known to have worked
bento4_chmod_counted ==
    /\ tool = "bento4" /\ step = "chmod"
    /\ success' = success + 1
    /\ \/ /\ mode' = mode \cup {Concat(executables[platform_name][j])}
          /\ step' = "record"
          /\ UNCHANGED <<out, affected>>
       \/ /\ bento4_except
          /\ UNCHANGED mode
    /\ UNCHANGED <<tool, cell, i, j, target_dir, temp, archive, fetched,
                   paths_json, attempts, ready, serialized, written, calls>>

\* lines 163-164: os.chmod(dst, 0o755)
bento4_chmod ==
    /\ tool = "bento4" /\ step = "chmod"
    /\ \/ /\ mode' = mode \cup {Concat(executables[platform_name][j])}
          /\ step' = "record"
          /\ UNCHANGED <<out, affected>>
       \/ /\ bento4_except
          /\ UNCHANGED mode
    /\ UNCHANGED <<tool, cell, i, j, success, target_dir, temp, archive, fetched,
                   paths_json, attempts, ready, serialized, written, calls>>

\* lines 166-167: self._add_path(...); success += 1
bento4_record ==
    /\ tool = "bento4" /\ step = "record"
    /\ Record(Concat(executables[platform_name][j]), zip_name)
    /\ success' = success + 1
    /\ step' = "rmtree"
    /\ UNCHANGED <<tool, cell, i, j, target_dir, mode, temp, archive, fetched,
                   out, attempts, affected, serialized, written, calls>>

\* the scratch directory is left behind after a match
bento4_rmtree_skip ==
    /\ tool = "bento4" /\ step = "rmtree"
    /\ j' = j + 1 /\ step' = "scan"
    /\ UNCHANGED <<tool, cell, i, success, target_dir, mode, temp, archive, fetched,
                   out, global>>

\* lines 169-170: shutil.rmtree(temp_path) if it exists; then the inner loop
\* goes on with the next executable
bento4_rmtree ==
    /\ tool = "bento4" /\ step = "rmtree"
    /\ \/ /\ target_dir' = target_dir \ {"temp"}
          /\ temp' = {}
          /\ j' = j + 1 /\ step' = "scan"
          /\ UNCHANGED <<out, affected>>
       \/ /\ "temp" \in target_dir
          /\ bento4_except
          /\ UNCHANGED <<target_dir, temp, j>>
    /\ UNCHANGED <<tool, cell, i, success, mode, archive, fetched,
                   paths_json, attempts, ready, serialized, written, calls>>

\* line 172: zip_path.unlink()
bento4_unlink ==
    /\ tool = "bento4" /\ step = "unlink"
    /\ \/ /\ target_dir' = target_dir \ {zip_name}
          /\ step' = "summary"
          /\ UNCHANGED <<out, affected>>
       \/ /\ bento4_except
          /\ UNCHANGED target_dir
    /\ UNCHANGED <<tool, cell, i, j, success, mode, temp, archive, fetched,
                   paths_json, attempts, ready, serialized, written, calls>>

\* line 176: print(f"{success}/4")
bento4_summary ==
    /\ tool = "bento4" /\ step = "summary"
    /\ Say(Line("summary", "", success, 4))
    /\ step' = "end"
    /\ UNCHANGED <<tool, cell, local, global>>

download_bento4 ==
    \/ bento4_begin
    \/ bento4_download
    \/ bento4_open
    \/ bento4_scan
    \/ bento4_extract
    \/ bento4_move
    \/ bento4_chmod
    \/ bento4_record
    \/ bento4_rmtree
    \/ bento4_unlink
    \/ bento4_summary

\* ---------------------------------------------------------------- megatools

extension == config[platform_name][arch][2]
executable == config[platform_name][arch][3]
archive_name == "megatools" \o extension

\* the member of the distribution archive that matters
MegaArchive(platform, arch_) ==
    << <<"megatools-" \o config[platform][arch_][1], "/">> \o config[platform][arch_][3] >>

\* members an arbitrary archive may hold: the distribution's, the executable
\* in a second directory, a file whose name only ends with the executable's
\* name, and one that matches nothing
MegaMembers(platform, arch_) ==
    Range(MegaArchive(platform, arch_))
        \cup {<<"bin", "/">> \o config[platform][arch_][3],
              <<"bin", "/", "x">> \o config[platform][arch_][3],
              <<"README">>}

\* lines 189-199
megatools_begin ==
    /\ tool = "megatools" /\ step = "begin"
    /\ attempts' = Append(attempts, <<tool, cell>>)
    /\ IF arch \notin DOMAIN config[platform_name]
       THEN Say(Line("skip", "", 0, 0)) /\ step' = "end"
       ELSE out' = out /\ step' = "download"
    /\ UNCHANGED <<tool, cell, local, paths_json, affected, ready, serialized, written, calls>>

\* lines 201-203: self._download(url, archive_path); on failure "0/1" and continue
megatools_download ==
    /\ tool = "megatools" /\ step = "download"
    /\ \/ /\ target_dir' = target_dir \cup {archive_name}
          /\ fetched' = fetched \cup {archive_name}
          /\ \/ archive' = MegaArchive(platform_name, arch) /\ UNCHANGED affected
             \/ /\ MayFail /\ Fail
                /\ archive' \in BoundedSeq(MegaMembers(platform_name, arch), MaxEntries)
                                    \ {MegaArchive(platform_name, arch)}
          /\ step' = "extractall"
          /\ UNCHANGED out
       \/ /\ MayFail /\ Fail
          /\ \E partial \in BOOLEAN :
                target_dir' = IF partial THEN target_dir \cup {archive_name}
                              ELSE target_dir
          /\ out' = out \o <<Line("X", archive_name, 0, 0), Line("summary", "", 0, 1)>>
          /\ step' = "end"
          /\ UNCHANGED <<archive, fetched>>
    /\ UNCHANGED <<tool, cell, i, j, success, mode, temp,
                   paths_json, attempts, ready, serialized, written, calls>>

\* the except branch of lines 232-233
megatools_except ==
    /\ MayFail /\ Fail
    /\ Say(Line("X extract", "", 0, 0))
    /\ step' = "summary"

\* lines 205-215: success = 0; temp_dir.mkdir(exist_ok=True); extractall(temp_dir)
megatools_extractall ==
    /\ tool = "megatools" /\ step = "extractall"
    /\ success' = 0
    /\ \/ /\ target_dir' = target_dir \cup {"temp"}
          /\ temp' = Range(archive)
          /\ step' = "walk"
          /\ UNCHANGED <<out, affected>>
       \/ /\ megatools_except
          /\ \E made \in BOOLEAN :
                target_dir' = IF made THEN target_dir \cup {"temp"} ELSE target_dir
          /\ UNCHANGED temp
    /\ UNCHANGED <<tool, cell, i, j, mode, archive, fetched,
                   paths_json, attempts, ready, serialized, written, calls>>

\* lines 217-219: os.walk(temp_dir) up to the first directory that lists the
\* executable among its files (the order of the directories is the
\* filesystem's); without one the loop ends and line 230 follows
megatools_walk ==
    /\ tool = "megatools" /\ step = "walk"
    /\ LET found == {k \in DOMAIN archive : Basename(archive[k]) = executable} IN
       IF found = {}
       THEN step' = "rmtree" /\ UNCHANGED i
       ELSE step' = "move" /\ i' \in found
    /\ UNCHANGED <<tool, cell, j, success, target_dir, mode, temp, archive, fetched,
                   out, global>>

\* lines 220-221: shutil.move(src, dst)
megatools_move ==
    /\ tool = "megatools" /\ step = "move"
    /\ LET dst == Concat(executable) IN
       \/ /\ temp' = temp \ {archive[i]}
          /\ target_dir' = target_dir \cup {dst}
          /\ mode' = mode \ {dst}
          /\ step' = IF platform_name # "windows" THEN "chmod" ELSE "record"
          /\ UNCHANGED <<out, affected>>
       \/ /\ megatools_except
          /\ UNCHANGED <<temp, target_dir, mode>>
    /\ UNCHANGED <<tool, cell, i, j, success, archive, fetched,
                   paths_json, attempts, ready, serialized, written, calls>>

\* lines 223-224: os.chmod(dst, 0o755)
megatools_chmod ==
    /\ tool = "megatools" /\ step = "chmod"
    /\ \/ /\ mode' = mode \cup {Concat(executable)}
          /\ step' = "record"
          /\ UNCHANGED <<out, affected>>
       \/ /\ megatools_except
          /\ UNCHANGED mode
    /\ UNCHANGED <<tool, cell, i, j, success, target_dir, temp, archive, fetched,
                   paths_json, attempts, ready, serialized, written, calls>>

\* lines 226-228: self._add_path(...); success = 1; break
megatools_record ==
    /\ tool = "megatools" /\ step = "record"
    /\ Record(Concat(executable), archive_name)
    /\ success' = 1
    /\ step' = "rmtree"
    /\ UNCHANGED <<tool, cell, i, j, target_dir, mode, temp, archive, fetched,
                   out, attempts, affected, serialized, written, calls>>

\* line 230: shutil.rmtree(temp_dir)
megatools_rmtree ==
    /\ tool = "megatools" /\ step = "rmtree"
    /\ \/ /\ target_dir' = target_dir \ {"temp"}
          /\ temp' = {}
          /\ step' = "unlink"
          /\ UNCHANGED <<out, affected>>
       \/ /\ megatools_except
          /\ UNCHANGED <<target_dir, temp>>
    /\ UNCHANGED <<tool, cell, i, j, success, mode, archive, fetched,
                   paths_json, attempts, ready, serialized, written, calls>>

\* line 231: archive_path.unlink()
megatools_unlink ==
    /\ tool = "megatools" /\ step = "unlink"
    /\ \/ /\ target_dir' = target_dir \ {archive_name}
          /\ step' = "summary"
          /\ UNCHANGED <<out, affected>>
       \/ /\ megatools_except
          /\ UNCHANGED target_dir
    /\ UNCHANGED <<tool, cell, i, j, success, mode, temp, archive, fetched,
                   paths_json, attempts, ready, serialized, written, calls>>

\* line 235: print(f"{success}/1")
megatools_summary ==
    /\ tool = "megatools" /\ step = "summary"
    /\ Say(Line("summary", "", success, 1))
    /\ step' = "end"
    /\ UNCHANGED <<tool, cell, local, global>>

download_megatools ==
    \/ megatools_begin
    \/ megatools_download
    \/ megatools_extractall
    \/ megatools_walk
    \/ megatools_move
    \/ megatools_chmod
    \/ megatools_record
    \/ megatools_rmtree
    \/ megatools_unlink
    \/ megatools_summary

\* ---------------------------------------------------------------------- run

\* json.dump of paths_json at a point where a download_* method is still
\* at work
save_paths_json_early ==
    /\ \/ tool = "save" /\ step = "begin" /\ tool' = "done"
       \/ tool \in Range(Tools) /\ step = "end" /\ cell = Len(Matrix)
          /\ serialized < 3 /\ tool' = tool
    /\ written' = paths_json
    /\ serialized' = serialized + 1
    /\ UNCHANGED <<cell, step, local, out, paths_json, attempts, affected, ready, calls>>

\* lines 237-241, called from line 250
save_paths_json ==
    /\ tool = "save" /\ step = "begin"
    /\ written' = paths_json
    /\ serialized' = serialized + 1
    /\ tool' = "done"
    /\ UNCHANGED <<cell, step, local, out, paths_json, attempts, affected, ready, calls>>

\* lines 243-252
run ==
    \/ download_ffmpeg
    \/ download_bento4
    \/ download_megatools
    \/ next_cell
    \/ save_paths_json

Next == run

Spec == Init /\ [][Next]_vars

\* ------------------------------------------------- _add_path on its own

\* any call self._add_path(platform, arch, tool, binary) on the manifest built
\* so far
add_path_call ==
    /\ Len(calls) < MaxCalls
    /\ \E platform \in {"windows", "linux"}, arch_ \in {"x64"},
          tool_ \in {"ffmpeg", "bento4"}, binary \in {"ffmpeg", "mp4dump"} :
          /\ paths_json' = _add_path(paths_json, platform, arch_, tool_, binary)
          /\ calls' = Append(calls, <<platform, arch_, tool_, binary>>)
    /\ UNCHANGED <<tool, cell, step, local, out, attempts, affected, ready,
                   serialized, written>>

NextAddPath == add_path_call

SpecAddPath == Init /\ [][NextAddPath]_vars

\* ------------------------------------------------------------ observations

Lines(kind) == {k \in DOMAIN out : out[k].kind = kind}
\* the cell is over: its summary (or "skip") has been printed
Finished == tool \in Range(Tools) /\ step = "end"
Skipped == Lines("skip") # {}
\* the count k of the "k/n" line of the cell
Reported == out[CHOOSE k \in Lines("summary") : TRUE].k
FetchFailed(name) == \E k \in Lines("X") : out[k].name = name
AnyFetchFailed == Lines("X") # {}
ErrorRaised == Lines("X extract") # {}
ErrorRaisedFor(name) == \E k \in Lines("X extract") : out[k].name = name
\* the paths the manifest holds for the current cell
Recorded ==
    IF Key(platform_name, arch, tool) \in DOMAIN paths_json
    THEN paths_json[Key(platform_name, arch, tool)]
    ELSE <<>>

ToolNames == {"ffmpeg", "bento4", "megatools"}
Targets ==
    {<<"windows", "x64">>, <<"darwin", "x64">>, <<"darwin", "arm64">>,
     <<"linux", "x64">>, <<"linux", "arm64">>}
TargetOrder ==
    << <<"windows", "x64">>, <<"darwin", "x64">>, <<"darwin", "arm64">>,
       <<"linux", "x64">>, <<"linux", "arm64">> >>
\* the cells in the order run() has to announce them
AllCells ==
    [k \in 1..15 |-> << Tools[((k - 1) \div 5) + 1], ((k - 1) % 5) + 1 >>]
ExpectedCount(t) ==
    CASE t = "ffmpeg" -> 2 [] t = "bento4" -> 4 [] t = "megatools" -> 1
IsPrefix(s, t) == Len(s) <= Len(t) /\ s = SubSeq(t, 1, Len(s))

\* ------------------------------------------------------------------ claims

\* C1: whatever fetches fail and whatever extraction errors are raised, the
\* cells are announced in the order ffmpeg, bento4, megatools over the whole
\* matrix, the run never stops before save_paths_json, and the manifest that
\* is written holds the full list of every cell the failures did not touch.
C1_EveryCellThenSave ==
    /\ IsPrefix(attempts, AllCells)
    /\ tool # "done" => ENABLED Next
    /\ serialized > 0 =>
        /\ attempts = AllCells
        /\ \A k \in 1..15 :
              AllCells[k] \notin affected =>
                 LET t == AllCells[k][1]
                     target == TargetOrder[AllCells[k][2]]
                     key == Key(target[1], target[2], t)
                 IN  /\ key \in DOMAIN written
                     /\ Len(written[key]) = ExpectedCount(t)

\* C1 witness: the run is over, a cell was left without any entry by a
\* failure, and later cells have their entries in the written manifest.
C1_Witness ==
    /\ tool = "done"
    /\ <<"ffmpeg", 1>> \in affected
    /\ "windows_x64_ffmpeg" \notin DOMAIN written
    /\ "linux_arm64_megatools" \in DOMAIN written

RECURSIVE Dedup(_)
\* the first occurrences of the elements of a sequence, in order
Dedup(seq) ==
    IF seq = <<>> THEN <<>>
    ELSE LET front == Dedup(SubSeq(seq, 1, Len(seq) - 1))
             last == seq[Len(seq)]
         IN  IF last \in Range(front) THEN front ELSE Append(front, last)

CallsFor(key) ==
    LET Test(c) == Key(c[1], c[2], c[3]) = key
        rel(cs) == [k \in DOMAIN cs |-> RelPath(cs[k][1], cs[k][2], cs[k][3], cs[k][4])]
    IN  rel(SelectSeq(calls, Test))

\* C2: after any sequence of _add_path calls no list holds a path twice, and
\* the list at each key is the sequence of the distinct paths recorded under
\* that key in the order of their first call (a repeated call changes nothing,
\* a new path is appended once).
C2_RecordIdempotent ==
    /\ DOMAIN paths_json = {Key(calls[k][1], calls[k][2], calls[k][3]) : k \in DOMAIN calls}
    /\ \A key \in DOMAIN paths_json :
          /\ NoDuplicates(paths_json[key])
          /\ paths_json[key] = Dedup(CallsFor(key))

\* C2 witness: the same executable was recorded twice and its list has one path.
C2_Witness ==
    /\ Len(calls) = 2
    /\ calls[1] = calls[2]
    /\ Len(paths_json[Key(calls[1][1], calls[1][2], calls[1][3])]) = 1

\* C3: every path in the manifest was, when it was recorded, the name of a
\* file that came out of a delivered download, stood at its final location
\* and, off windows, had mode 0755.
C3_RecordedOnlyWhenInstalled ==
    \A key \in DOMAIN paths_json : Range(paths_json[key]) \subseteq ready

\* C3 witness: an ffmpeg cell ends with one executable recorded and the other
\* one dropped by an error raised on the way to its record.
C3_Witness ==
    /\ tool = "ffmpeg" /\ step = "end"
    /\ ErrorRaisedFor("ffprobe")
    /\ Recorded = <<RelPath(platform_name, arch, "ffmpeg", final_name("ffmpeg"))>>

\* C4: a bento4 cell whose download and extraction raised nothing reports as
\* k the number of expected names that some member of the zip ends with, at
\* most 4, and its manifest list holds exactly k paths.
C4_CountIsMatchedNames ==
    (Finished /\ tool = "bento4" /\ ~Skipped /\ ~AnyFetchFailed /\ ~ErrorRaised) =>
        LET names == executables[platform_name]
            matched == {n \in DOMAIN names :
                          \E m \in DOMAIN archive : EndsWith(archive[m], names[n])}
        IN  /\ Reported = Cardinality(matched)
            /\ Reported <= 4
            /\ Len(Recorded) = Reported

\* C5: when nothing deviates, the written manifest has exactly the 15 keys of
\* the 5 targets and 3 tools, with 2, 4 and 1 distinct paths per key.
C5_FullManifest ==
    (tool = "done" /\ affected = {}) =>
        /\ DOMAIN written = {Key(tg[1], tg[2], t) : tg \in Targets, t \in ToolNames}
        /\ Cardinality(DOMAIN written) = 15
        /\ \A tg \in Targets, t \in ToolNames :
              /\ Len(written[Key(tg[1], tg[2], t)]) = ExpectedCount(t)
              /\ NoDuplicates(written[Key(tg[1], tg[2], t)])

\* C5 witness: a run without any deviation has written its manifest.
C5_Witness == tool = "done" /\ affected = {} /\ serialized = 1

\* C7: json.dump runs at most once, only when all three download methods are
\* over, exactly once when the run is done, and paths_json is not changed
\* after it (the file equals the manifest from then on).
C7_SerializedOnceAtEnd ==
    /\ serialized <= 1
    /\ tool = "done" <=> serialized = 1
    /\ tool # "done" => serialized = 0
    /\ serialized = 1 => written = paths_json /\ attempts = AllCells

\* C7 witness: the run is done and the manifest has been written once.
C7_Witness == tool = "done" /\ serialized = 1 /\ written = paths_json

\* C8 as stated: a cell in which an extraction error was raised reports 0 and
\* has no entry in the manifest.
C8_ErrorMeansZero ==
    (Finished /\ ErrorRaised) => (Reported = 0 /\ Recorded = <<>>)

\* C8 amended: the step that raises changes neither the count nor the
\* manifest and leads to the summary (ffmpeg: or to the next executable); the
\* cell then reports the count reached, which is 0 exactly when nothing was
\* recorded for it, and the loop goes on.
C8_ErrorCaughtCountKept ==
    /\ [][Cardinality(Lines("X extract"))' > Cardinality(Lines("X extract")) =>
            /\ success' = success
            /\ paths_json' = paths_json
            /\ step' = "summary" \/ (tool = "ffmpeg" /\ step' = "download")]_vars
    /\ []((Finished /\ ErrorRaised) =>
            /\ Lines("summary") # {}
            /\ Reported = success
            /\ Reported = 0 <=> Recorded = <<>>
            /\ Len(Recorded) <= Reported
            /\ ENABLED next_cell)

\* C8 witness: a bento4 cell ends after an error with a nonzero count.
C8_Witness ==
    Finished /\ tool = "bento4" /\ ErrorRaised /\ Reported > 0 /\ Recorded # <<>>

\* C9 as stated: a cell in which a fetch failed reports 0 and has no entry in
\* the manifest.
C9_FetchFailureMeansZero ==
    (Finished /\ AnyFetchFailed) => (Reported = 0 /\ Recorded = <<>>)

\* C9 amended: a failed fetch of the bento4 or megatools archive gives a
\* report of 0 and no entry; a failed fetch of one ffmpeg executable leaves
\* that executable out of the manifest and of the count, whatever happens to
\* the other one; the loop goes on.
C9_FailedFetchNotRecorded ==
    (Finished /\ AnyFetchFailed) =>
        /\ tool \in {"bento4", "megatools"} => (Reported = 0 /\ Recorded = <<>>)
        /\ tool = "ffmpeg" =>
              /\ \A e \in Range(ffmpeg_executables) :
                    FetchFailed(gz_name(e)) =>
                       RelPath(platform_name, arch, tool, final_name(e))
                           \notin Range(Recorded)
              /\ Reported <= 2 - Cardinality(Lines("X"))
              /\ Reported = Len(Recorded)
        /\ ENABLED next_cell

\* C9 witness: an ffmpeg cell whose first fetch failed ends with the second
\* executable recorded.
C9_Witness ==
    /\ Finished /\ tool = "ffmpeg"
    /\ FetchFailed(gz_name("ffmpeg"))
    /\ Reported = 1

\* C10: when a cell ends whose fetches all succeeded and in which no error was
\* raised, neither the downloaded file(s) nor a "temp" directory exist in the
\* target directory.
C10_SourceAndScratchGone ==
    (Finished /\ ~Skipped /\ ~AnyFetchFailed /\ ~ErrorRaised) =>
        /\ fetched # {}
        /\ fetched \cap target_dir = {}
        /\ "temp" \notin target_dir
        /\ temp = {}

\* C10 witness: a bento4 cell whose zip matched no expected name ends cleanly.
C10_Witness ==
    /\ Finished /\ tool = "bento4"
    /\ ~AnyFetchFailed /\ ~ErrorRaised
    /\ archive # <<>> /\ Reported = 0
====
